---- MODULE Spec2Model ----
(***************************************************************************)
(* Model of offchain/inspect-server/src/inspect.rs: the InspectClient      *)
(* (a bounded mpsc queue of InspectRequest, one oneshot response channel   *)
(* per request) and the handle_inspect loop that serves the queue with one *)
(* fresh ServerManagerClient connection per request.                       *)
(***************************************************************************)
EXTENDS Integers, Sequences, FiniteSets, TLC

\* ------------------------------------------------------------------ bounds
MaxCallers == 3        \* number of inspect() calls made in a behaviour
MaxQueueSize == 2      \* largest config.queue_size tried

Callers == 1..MaxCallers

\* ------------------------------------------------------------------ values
\* The payload (Vec<u8>) of the c-th inspect() call. Neither inspect nor
\* handle_inspect reads a payload's bytes, so a behaviour is determined up to
\* a renaming of the payloads; the calls get pairwise different ones, the
\* case in which handing a request the payload of another one shows.
PayloadOf(c) == <<c>>
Payloads == {PayloadOf(c) : c \in Callers}
\* The call a payload was given to.
Owner(p) == p[1]
NoPayload == <<>>

\* The session context captured by InspectClient::new.
SessionId == "session"

\* InspectStateResponse: what the server manager may reply to a query
\* payload, a report made from the payload.
NoResponse == [completion_status |-> "none", reports |-> <<>>]
Responses(p) == { [completion_status |-> "Accepted", reports |-> <<p>>] }

\* What ServerManagerClient::connect may fail with (a tonic transport error).
ConnectErrors == { [kind |-> "transport", text |-> "transport error"] }

\* What client.inspect_state may fail with (a tonic Status): a transport
\* failure during the call and an error reported by the remote.
Statuses ==
    { [code |-> "Unavailable", message |-> "connection reset"],
      [code |-> "InvalidArgument", message |-> "unknown session"] }

\* Result<InspectStateResponse, InspectError>
NoResult == [kind |-> "none", message |-> "", value |-> NoResponse]
Ok(v) == [kind |-> "Ok", message |-> "", value |-> v]
FailedToConnect(m) == [kind |-> "FailedToConnect", message |-> m, value |-> NoResponse]
InspectFailed(m) == [kind |-> "InspectFailed", message |-> m, value |-> NoResponse]

NoRequest == [payload |-> NoPayload, response_tx |-> 0]

\* What the remote side did for a request: the step that ended it ("connect"
\* or "call"), whether that step succeeded, and the error or the reply.
NoConnectError == [kind |-> "none", text |-> ""]
NoStatus == [code |-> "none", message |-> ""]
NoOutcome == [step |-> "none", ok |-> FALSE, connect_error |-> NoConnectError,
              status |-> NoStatus, reply |-> NoResponse]
ConnectFailed(e) == [step |-> "connect", ok |-> FALSE, connect_error |-> e,
                     status |-> NoStatus, reply |-> NoResponse]
CallFailed(e) == [step |-> "call", ok |-> FALSE, connect_error |-> NoConnectError,
                  status |-> e, reply |-> NoResponse]
CallSucceeded(v) == [step |-> "call", ok |-> TRUE, connect_error |-> NoConnectError,
                     status |-> NoStatus, reply |-> v]
NoGrpcRequest == [session_id |-> "", query_payload |-> NoPayload]

VARIABLES
    queue_size,   \* config.queue_size, the capacity given to mpsc::channel
    inspect_tx,   \* the senders of the queue: "live" while an InspectClient (the
                  \* one new() returned or a clone of it) exists, then "dropped"
    queue,        \* the mpsc channel's buffer, a sequence of InspectRequest
    callerPc,     \* per inspect() call: "idle", "rejected" (returned at try_send),
                  \* "awaiting", "returned" (the await completed), "dropped",
                  \* "panicked" (the expect on the await failed)
    payload,      \* per call: the payload argument
    slot,         \* per call: the oneshot channel [state, value]
    result,       \* per call: what inspect() returned
    pc,           \* handle_inspect: "recv", "connect", "call", "done" (returned),
                  \* "aborted" (the task was dropped)
    request,      \* handle_inspect: the InspectRequest being served
    client,       \* handle_inspect: "none" or "connected" (ServerManagerClient)
    grpc_request, \* handle_inspect: the InspectStateRequest of the call in flight
    stale,        \* history: the caller of the request being served had dropped
                  \* its future before the loop received the request
    drained,      \* history: the loop received a request after the last sender
                  \* had been dropped
    deqs,         \* history, per call: times its request was received by the loop
    connects,     \* history, per call: connect() calls made for it
    calls,        \* history, per call: inspect_state() calls made for it
    sends,        \* history, per call: response_tx.send() calls made for it
    outcome,      \* history, per call: what the remote side did for its payload
    written       \* history, per call: the response handed to response_tx.send()

vars == <<queue_size, inspect_tx, queue, callerPc, payload, slot, result, pc, request, client,
          grpc_request, stale, drained, deqs, connects, calls, sends, outcome, written>>

configVars == <<queue_size>>
callerVars == <<callerPc, payload, result>>
loopVars == <<pc, request, client, grpc_request, stale, drained>>
histVars == <<deqs, connects, calls, sends, outcome, written>>

\* ------------------------------------------------------------ conversions
\* e.to_string() of a tonic transport error: its Display text.
TransportErrorToString(e) == e.text

\* A faulty StatusMessage: the text of the status code instead of the message.
StatusMessage_Code(e) == e.code

\* e.message().to_string() of a tonic Status: the message, without the code.
StatusMessage(e) == e.message

\* e.to_string() of mpsc::error::TrySendError.
TrySendErrorToString(e) ==
    IF e = "Full" THEN "no available capacity" ELSE "channel closed"

\* A faulty IntoInner: the reports of the message are lost.
IntoInner_NoReports(r) == [r.message EXCEPT !.reports = <<>>]

\* tonic::Response::into_inner: the message without the metadata.
IntoInner(r) == r.message

\* ------------------------------------------------------------ the channels
\* The receiver of the queue lives until handle_inspect returns or its task
\* is dropped.
RxClosed == pc \in {"done", "aborted"}

\* A faulty TrySend: the capacity test is off by one and lets one request
\* more into the buffer.
TrySend_OneMore(q, closed, req) ==
    IF closed THEN [ok |-> FALSE, err |-> "Closed", q |-> q]
    ELSE IF Len(q) > queue_size THEN [ok |-> FALSE, err |-> "Full", q |-> q]
    ELSE [ok |-> TRUE, err |-> "none", q |-> Append(q, req)]

\* A faulty TrySend: the request the loop is serving still counts against the
\* capacity, as if its place were given back only with its response.
TrySend_CountsServed(q, closed, req) ==
    LET held == Len(q) + (IF pc \in {"connect", "call"} THEN 1 ELSE 0)
    IN IF closed THEN [ok |-> FALSE, err |-> "Closed", q |-> q]
       ELSE IF held >= queue_size THEN [ok |-> FALSE, err |-> "Full", q |-> q]
       ELSE [ok |-> TRUE, err |-> "none", q |-> Append(q, req)]

\* A faulty TrySend: the request is put into the buffer before the capacity
\* is tested, so a submit reported as Full has been stored all the same.
TrySend_StoresWhenFull(q, closed, req) ==
    IF closed THEN [ok |-> FALSE, err |-> "Closed", q |-> q]
    ELSE IF Len(q) >= queue_size THEN [ok |-> FALSE, err |-> "Full", q |-> Append(q, req)]
    ELSE [ok |-> TRUE, err |-> "none", q |-> Append(q, req)]

\* A faulty TrySend: the channel is unbounded and never reports Full.
TrySend_NeverFull(q, closed, req) ==
    IF closed THEN [ok |-> FALSE, err |-> "Closed", q |-> q]
    ELSE [ok |-> TRUE, err |-> "none", q |-> Append(q, req)]

\* mpsc::Sender::try_send on a channel of capacity queue_size.
TrySend(q, closed, req) ==
    IF closed THEN [ok |-> FALSE, err |-> "Closed", q |-> q]
    ELSE IF Len(q) >= queue_size THEN [ok |-> FALSE, err |-> "Full", q |-> q]
    ELSE [ok |-> TRUE, err |-> "none", q |-> Append(q, req)]

\* A faulty RecvItem: the request is read but stays in the buffer.
RecvItem_Peek(q) == [item |-> Head(q), rest |-> q]

\* A faulty RecvItem: the newest request is taken first.
RecvItem_Newest(q) == [item |-> q[Len(q)], rest |-> SubSeq(q, 1, Len(q) - 1)]

\* mpsc::Receiver::recv on a non-empty buffer: the oldest request. Taking it
\* out gives its place in the capacity back at once.
RecvItem(q) == [item |-> Head(q), rest |-> Tail(q)]

\* A faulty OneshotSend: the value is stored whether or not the receiver is
\* still there.
OneshotSend_NoReceiverCheck(s, tx, response) ==
    [s EXCEPT ![tx] = [state |-> "full", value |-> response]]

\* oneshot::Sender::send: stores the value unless the receiver is gone.
OneshotSend(s, tx, response) ==
    IF s[tx].state = "empty"
    THEN [s EXCEPT ![tx] = [state |-> "full", value |-> response]]
    ELSE s

\* A faulty OneshotDropSender: the receiver is not told that the sender is
\* gone.
OneshotDropSender_Silent(s, tx) == s

\* Drop of a oneshot::Sender that was never used: a receiver still there
\* finds the channel closed.
OneshotDropSender(s, tx) ==
    IF s[tx].state = "empty"
    THEN [s EXCEPT ![tx] = [state |-> "orphaned", value |-> NoResult]]
    ELSE s

\* A faulty respond: the response goes to the oldest caller still waiting
\* instead of the sender that came with the request.
respond_OldestWaiter(tx, response) ==
    LET waiting == {c \in DOMAIN slot : slot[c].state = "empty"}
        to == IF waiting = {} THEN tx
              ELSE CHOOSE c \in waiting : \A d \in waiting : c <= d
    IN /\ slot' = OneshotSend(slot, to, response)
       /\ sends' = [sends EXCEPT ![to] = @ + 1]
       /\ written' = [written EXCEPT ![to] = response]

\* respond(): send, and only log when the client dropped its receiver.
respond(tx, response) ==
    /\ slot' = OneshotSend(slot, tx, response)
    /\ sends' = [sends EXCEPT ![tx] = @ + 1]
    /\ written' = [written EXCEPT ![tx] = response]

\* ------------------------------------------------------------ the callers
Idle == {c \in Callers : callerPc[c] = "idle"}
Awaiting == {c \in Callers : callerPc[c] = "awaiting"}

\* Drop of the last InspectClient (cloning one and dropping any but the last
\* change nothing). A pending inspect() future borrows its client, so the
\* last client outlives every pending future.
DropHandle ==
    /\ inspect_tx = "live"
    /\ Awaiting = {}
    /\ inspect_tx' = "dropped"
    /\ UNCHANGED <<configVars, queue, slot, callerVars, loopVars, histVars>>

\* A faulty Inspect: the request is sent with send().await, which waits for
\* capacity instead of failing.
Inspect_Blocking(p) ==
    /\ inspect_tx = "live"
    /\ Idle # {}
    /\ Len(queue) < queue_size
    /\ LET c == CHOOSE x \in Idle : \A y \in Idle : x <= y
       IN /\ p = PayloadOf(c)
          /\ payload' = [payload EXCEPT ![c] = p]
          /\ queue' = Append(queue, [payload |-> p, response_tx |-> c])
          /\ callerPc' = [callerPc EXCEPT ![c] = "awaiting"]
          /\ slot' = [slot EXCEPT ![c] = [state |-> "empty", value |-> NoResult]]
    /\ UNCHANGED <<configVars, inspect_tx, result, loopVars, histVars>>

\* The next inspect() call. Calls are numbered in the order of their try_send.
NextCall == CHOOSE x \in Idle : \A y \in Idle : x <= y

\* InspectClient::inspect up to its await: the oneshot channel, the request,
\* try_send, and the early return when try_send fails.
Inspect(p) ==
    /\ inspect_tx = "live"
    /\ Idle # {}
    /\ p = PayloadOf(NextCall)
    /\ LET c == NextCall
           req == [payload |-> p, response_tx |-> c]
           sent == TrySend(queue, RxClosed, req)
       IN /\ payload' = [payload EXCEPT ![c] = p]
          /\ queue' = sent.q
          /\ IF sent.ok
             THEN /\ callerPc' = [callerPc EXCEPT ![c] = "awaiting"]
                  /\ slot' = [slot EXCEPT ![c] = [state |-> "empty", value |-> NoResult]]
                  /\ UNCHANGED result
             ELSE /\ callerPc' = [callerPc EXCEPT ![c] = "rejected"]
                  /\ slot' = [slot EXCEPT ![c] = [state |-> "closed", value |-> NoResult]]
                  /\ result' = [result EXCEPT ![c] =
                                    InspectFailed(TrySendErrorToString(sent.err))]
    /\ UNCHANGED <<configVars, inspect_tx, loopVars, histVars>>

\* response_rx.await completes with the value the loop sent.
Await(c) ==
    /\ callerPc[c] = "awaiting"
    /\ slot[c].state = "full"
    /\ callerPc' = [callerPc EXCEPT ![c] = "returned"]
    /\ result' = [result EXCEPT ![c] = slot[c].value]
    /\ slot' = [slot EXCEPT ![c] = [state |-> "taken", value |-> NoResult]]
    /\ UNCHANGED <<configVars, inspect_tx, queue, payload, loopVars, histVars>>

\* response_rx.await completes with RecvError because the sender was dropped
\* unused, and expect("handle_inspect never fails") panics in the caller.
AwaitFails(c) ==
    /\ callerPc[c] = "awaiting"
    /\ slot[c].state = "orphaned"
    /\ callerPc' = [callerPc EXCEPT ![c] = "panicked"]
    /\ slot' = [slot EXCEPT ![c] = [state |-> "closed", value |-> NoResult]]
    /\ UNCHANGED <<configVars, inspect_tx, queue, payload, result, loopVars, histVars>>

\* A faulty DropFuture: dropping the future takes the request out of the
\* queue when it is still there.
DropFuture_Cancels(c) ==
    /\ callerPc[c] = "awaiting"
    /\ callerPc' = [callerPc EXCEPT ![c] = "dropped"]
    /\ slot' = [slot EXCEPT ![c] = [state |-> "closed", value |-> NoResult]]
    /\ queue' = SelectSeq(queue, LAMBDA r : r.response_tx # c)
    /\ UNCHANGED <<configVars, inspect_tx, payload, result, loopVars, histVars>>

\* The caller drops the inspect() future, and with it response_rx.
DropFuture(c) ==
    /\ callerPc[c] = "awaiting"
    /\ callerPc' = [callerPc EXCEPT ![c] = "dropped"]
    /\ slot' = [slot EXCEPT ![c] = [state |-> "closed", value |-> NoResult]]
    /\ UNCHANGED <<configVars, inspect_tx, queue, payload, result, loopVars, histVars>>

\* ------------------------------------------------------------ the loop
\* A faulty Recv: the next request is received while the one before it is
\* still being served, as when each request is handed to a task of its own.
Recv_WhileServing ==
    /\ pc \in {"recv", "connect", "call"}
    /\ queue # <<>>
    /\ LET got == RecvItem(queue)
       IN /\ request' = got.item
          /\ queue' = got.rest
          /\ deqs' = [deqs EXCEPT ![got.item.response_tx] = @ + 1]
          /\ stale' = (callerPc[got.item.response_tx] = "dropped")
          /\ drained' = (drained \/ inspect_tx = "dropped")
    /\ pc' = "connect"
    /\ UNCHANGED <<configVars, inspect_tx, slot, callerVars, client, grpc_request,
                   connects, calls, sends, outcome, written>>

\* inspect_rx.recv() returns Some(request).
Recv ==
    /\ pc = "recv"
    /\ queue # <<>>
    /\ LET got == RecvItem(queue)
       IN /\ request' = got.item
          /\ queue' = got.rest
          /\ deqs' = [deqs EXCEPT ![got.item.response_tx] = @ + 1]
          /\ stale' = (callerPc[got.item.response_tx] = "dropped")
          /\ drained' = (drained \/ inspect_tx = "dropped")
    /\ pc' = "connect"
    /\ UNCHANGED <<configVars, inspect_tx, slot, callerVars, client, grpc_request,
                   connects, calls, sends, outcome, written>>

\* A faulty Terminate: the loop ends as soon as every sender is dropped,
\* without taking what is left in the buffer.
Terminate_OnClose ==
    /\ pc = "recv"
    /\ inspect_tx = "dropped"
    /\ pc' = "done"
    /\ UNCHANGED <<configVars, inspect_tx, queue, slot, callerVars, request, client,
                   grpc_request, stale, histVars, drained>>

\* A faulty Terminate: the loop ends when it finds the queue empty, as with
\* try_recv(), although a sender still exists.
Terminate_OnEmpty ==
    /\ pc = "recv"
    /\ queue = <<>>
    /\ pc' = "done"
    /\ UNCHANGED <<configVars, inspect_tx, queue, slot, callerVars, request, client,
                   grpc_request, stale, histVars, drained>>

\* inspect_rx.recv() returns None: every sender dropped and the buffer empty.
Terminate ==
    /\ pc = "recv"
    /\ queue = <<>>
    /\ inspect_tx = "dropped"
    /\ pc' = "done"
    /\ UNCHANGED <<configVars, inspect_tx, queue, slot, callerVars, request, client,
                   grpc_request, stale, histVars, drained>>

\* A faulty ConnectFail: the loop goes on to the next request and drops the
\* failed one without a response.
ConnectFail_NoRespond(e) ==
    /\ pc = "connect"
    /\ LET tx == request.response_tx
       IN /\ connects' = [connects EXCEPT ![tx] = @ + 1]
          /\ outcome' = [outcome EXCEPT ![Owner(request.payload)] = ConnectFailed(e)]
    /\ pc' = "recv"
    /\ request' = NoRequest
    /\ stale' = FALSE
    /\ UNCHANGED <<configVars, inspect_tx, queue, slot, callerVars, client, grpc_request,
                   deqs, calls, sends, written, drained>>

\* A faulty ConnectFail: the loop answers the request and then ends.
ConnectFail_Exit(e) ==
    /\ pc = "connect"
    /\ LET tx == request.response_tx
           response == FailedToConnect(TransportErrorToString(e))
       IN /\ connects' = [connects EXCEPT ![tx] = @ + 1]
          /\ outcome' = [outcome EXCEPT ![Owner(request.payload)] = ConnectFailed(e)]
          /\ respond(tx, response)
    /\ pc' = "done"
    /\ request' = NoRequest
    /\ stale' = FALSE
    /\ UNCHANGED <<configVars, inspect_tx, queue, callerVars, client, grpc_request, deqs, calls,
                   drained>>

\* ServerManagerClient::connect fails: respond with FailedToConnect.
ConnectFail(e) ==
    /\ pc = "connect"
    /\ LET tx == request.response_tx
           response == FailedToConnect(TransportErrorToString(e))
       IN /\ connects' = [connects EXCEPT ![tx] = @ + 1]
          /\ outcome' = [outcome EXCEPT ![Owner(request.payload)] = ConnectFailed(e)]
          /\ respond(tx, response)
    /\ pc' = "recv"
    /\ request' = NoRequest
    /\ stale' = FALSE
    /\ UNCHANGED <<configVars, inspect_tx, queue, callerVars, client, grpc_request, deqs, calls,
                   drained>>

\* ServerManagerClient::connect succeeds: build the request and call
\* inspect_state with it.
ConnectOk ==
    /\ pc = "connect"
    /\ LET tx == request.response_tx
       IN /\ connects' = [connects EXCEPT ![tx] = @ + 1]
          /\ calls' = [calls EXCEPT ![tx] = @ + 1]
    /\ client' = "connected"
    /\ grpc_request' = [session_id |-> SessionId, query_payload |-> request.payload]
    /\ pc' = "call"
    /\ UNCHANGED <<configVars, inspect_tx, queue, slot, callerVars, request, stale, deqs,
                   sends, outcome, written, drained>>

\* inspect_state returns Ok(Response): respond with its message.
CallOk(v) ==
    /\ pc = "call"
    /\ LET tx == request.response_tx
           grpc_response == [metadata |-> "grpc-status: 0", message |-> v]
           response == Ok(IntoInner(grpc_response))
       IN /\ outcome' = [outcome EXCEPT ![Owner(grpc_request.query_payload)] =
                                     CallSucceeded(v)]
          /\ respond(tx, response)
    /\ pc' = "recv"
    /\ request' = NoRequest
    /\ stale' = FALSE
    /\ client' = "none"
    /\ grpc_request' = NoGrpcRequest
    /\ UNCHANGED <<configVars, inspect_tx, queue, callerVars, deqs, connects, calls,
                   drained>>

\* A faulty CallFail: the first failure of the call is not reported; the
\* loop connects again and repeats the call.
CallFail_Retry(e) ==
    /\ pc = "call"
    /\ LET tx == request.response_tx
           response == InspectFailed(StatusMessage(e))
       IN IF connects[tx] < 2
          THEN /\ pc' = "connect"
               /\ UNCHANGED <<request, stale, slot, sends, outcome, written>>
          ELSE /\ outcome' = [outcome EXCEPT ![Owner(grpc_request.query_payload)] =
                                          CallFailed(e)]
               /\ respond(tx, response)
               /\ pc' = "recv"
               /\ request' = NoRequest
               /\ stale' = FALSE
    /\ client' = "none"
    /\ grpc_request' = NoGrpcRequest
    /\ UNCHANGED <<configVars, inspect_tx, queue, callerVars, deqs, connects, calls,
                   drained>>

\* inspect_state returns Err(Status): respond with InspectFailed.
CallFail(e) ==
    /\ pc = "call"
    /\ LET tx == request.response_tx
           response == InspectFailed(StatusMessage(e))
       IN /\ outcome' = [outcome EXCEPT ![Owner(grpc_request.query_payload)] =
                                     CallFailed(e)]
          /\ respond(tx, response)
    /\ pc' = "recv"
    /\ request' = NoRequest
    /\ stale' = FALSE
    /\ client' = "none"
    /\ grpc_request' = NoGrpcRequest
    /\ UNCHANGED <<configVars, inspect_tx, queue, callerVars, deqs, connects, calls,
                   drained>>

\* The requests the handle_inspect task owns: those in the buffer of
\* inspect_rx and the one it is serving.
Held == {queue[i].response_tx : i \in 1..Len(queue)} \cup ({request.response_tx} \ {0})

\* The task spawned by InspectClient::new is detached: nothing joins it, and
\* the runtime drops it when the runtime shuts down or when a callee panics.
\* With the task go inspect_rx, the requests in its buffer, the request in
\* service and the connection, and with the requests their response_tx.
Abort ==
    /\ pc \notin {"done", "aborted"}
    /\ pc' = "aborted"
    /\ slot' = [c \in Callers |->
                  IF c \in Held THEN OneshotDropSender(slot, c)[c] ELSE slot[c]]
    /\ queue' = <<>>
    /\ request' = NoRequest
    /\ stale' = FALSE
    /\ client' = "none"
    /\ grpc_request' = NoGrpcRequest
    /\ UNCHANGED <<configVars, inspect_tx, callerVars, histVars, drained>>

\* ------------------------------------------------------------ the system
Init ==
    /\ queue_size \in 1..MaxQueueSize
    /\ inspect_tx = "live"
    /\ queue = <<>>
    /\ callerPc = [c \in Callers |-> "idle"]
    /\ payload = [c \in Callers |-> NoPayload]
    /\ slot = [c \in Callers |-> [state |-> "none", value |-> NoResult]]
    /\ result = [c \in Callers |-> NoResult]
    /\ pc = "recv"
    /\ request = NoRequest
    /\ client = "none"
    /\ grpc_request = NoGrpcRequest
    /\ stale = FALSE
    /\ drained = FALSE
    /\ deqs = [c \in Callers |-> 0]
    /\ connects = [c \in Callers |-> 0]
    /\ calls = [c \in Callers |-> 0]
    /\ sends = [c \in Callers |-> 0]
    /\ outcome = [c \in Callers |-> NoOutcome]
    /\ written = [c \in Callers |-> NoResult]

CallerStep ==
    \/ \E p \in Payloads : Inspect(p)
    \/ \E c \in Callers : Await(c)
    \/ \E c \in Callers : DropFuture(c)
    \/ DropHandle

LoopStep ==
    \/ Recv
    \/ Terminate
    \/ \E e \in ConnectErrors : ConnectFail(e)
    \/ ConnectOk
    \/ \E v \in Responses(grpc_request.query_payload) : CallOk(v)
    \/ \E e \in Statuses : CallFail(e)

Next == CallerStep \/ LoopStep

Spec == Init /\ [][Next]_vars

\* The runtime keeps polling the spawned handle_inspect task, connect and
\* inspect_state return, and a caller whose slot was written is woken.
FairSpec ==
    /\ Spec
    /\ WF_vars(LoopStep)
    /\ \A c \in Callers : WF_vars(Await(c))

\* The system with a handle_inspect task that may be dropped before it
\* returns.
AbortNext ==
    \/ Next
    \/ Abort
    \/ \E c \in Callers : AwaitFails(c)

AbortSpec == Init /\ [][AbortNext]_vars

\* As FairSpec, while the task exists; a caller whose sender was dropped is
\* woken as well.
FairAbortSpec ==
    /\ AbortSpec
    /\ WF_vars(LoopStep)
    /\ \A c \in Callers : WF_vars(Await(c))
    /\ \A c \in Callers : WF_vars(AwaitFails(c))

\* ------------------------------------------------------------ properties
Accepted == {c \in Callers : callerPc[c] \in {"awaiting", "returned", "dropped"}}
ErrorKinds == {"FailedToConnect", "InspectFailed"}

\* The await of call c has completed with Ok or Err.
Resolved(c) ==
    /\ callerPc[c] = "returned"
    /\ result[c].kind \in {"Ok"} \cup ErrorKinds

\* Some step that brings a waiting caller nearer to its response can be taken.
CanProgress == ENABLED (LoopStep \/ \E c \in Callers : Await(c))

\* C1: under FairSpec, every call that was accepted into the queue stops
\* waiting (no call stays "awaiting" for ever), an await that completes yields
\* Ok or Err, and while a caller waits the loop or the caller can take a
\* step, so no deadlock state is reachable.
C1_AcceptedCallResolves ==
    /\ \A c \in Callers : []<>(callerPc[c] # "awaiting")
    /\ [](\A c \in Callers : callerPc[c] = "returned" => Resolved(c))
    /\ [](Awaiting # {} => CanProgress)

\* A call was accepted, waited, and its await resolved.
C1_Witness ==
    \E c \in Callers : Resolved(c) /\ deqs[c] = 1 /\ sends[c] = 1

\* The response the loop owes a caller for what the remote side did.
ResponseFor(o) ==
    IF o.step = "connect" THEN FailedToConnect(o.connect_error.text)
    ELSE IF o.ok THEN Ok(o.reply)
    ELSE InspectFailed(o.status.message)

\* The request the loop is serving, 0 when it serves none.
Serving == request.response_tx

\* C2: every response slot is written at most once; a request the loop has
\* received and is no longer serving has had its slot written exactly once
\* (one of the connection-failure error, the call-failure error and the Ok
\* response), and the one being served not yet, so the write comes before
\* the next request is received.
C2_ExactlyOnce ==
    \A c \in Callers :
        /\ sends[c] <= 1
        /\ deqs[c] <= 1
        /\ sends[c] <= deqs[c]
        /\ (deqs[c] = 1 /\ Serving # c) => sends[c] = 1
        /\ Serving = c => (deqs[c] = 1 /\ sends[c] = 0)
        /\ sends[c] = 1 => written[c].kind \in {"Ok"} \cup ErrorKinds
        /\ sends[c] = 0 => written[c] = NoResult
        /\ slot[c].state = "full" => (sends[c] = 1 /\ slot[c].value = written[c])

\* One request has been answered and the loop is serving the next one.
C2_Witness ==
    \E a, b \in Callers : a # b /\ sends[a] = 1 /\ Serving = b /\ sends[b] = 0

\* C3: the outbound call made for a request carries that request's payload,
\* and what the remote side did for a payload reaches only the slot of the
\* call that submitted it: a written slot and a returned result are the
\* response for the caller's own payload, and only one caller is sent it.
C3_Correlation ==
    /\ pc = "call" =>
          /\ Serving \in Callers
          /\ grpc_request.query_payload = payload[Serving]
          /\ grpc_request.session_id = SessionId
    /\ \A c \in Callers :
          /\ sends[c] >= 1 <=> outcome[c].step # "none"
          /\ sends[c] >= 1 => written[c] = ResponseFor(outcome[c])
          /\ slot[c].state = "full" => slot[c].value = ResponseFor(outcome[c])
          /\ callerPc[c] = "returned" => result[c] = ResponseFor(outcome[c])

\* Two callers have received different results, each its own.
C3_Witness ==
    \E a, b \in Callers :
        /\ callerPc[a] = "returned" /\ callerPc[b] = "returned"
        /\ result[a] # result[b]
        /\ result[a] = ResponseFor(outcome[a])
        /\ result[b] = ResponseFor(outcome[b])

\* C4: the bounded queue never holds more than queue_size requests.
C4_QueueBound == Len(queue) <= queue_size

\* The queue is full and a further submit has been turned away.
C4_Witness ==
    /\ Len(queue) = queue_size
    /\ \E c \in Callers : callerPc[c] = "rejected"

\* C5 (as claimed): a submit turned away because the queue is full returns
\* an error of a kind of its own, Overloaded, which is neither the
\* connection-failure kind nor the call-failure kind.
C5_OverloadedKind ==
    \A c \in Callers :
        callerPc[c] = "rejected" =>
            /\ result[c].kind = "Overloaded"
            /\ result[c].kind \notin ErrorKinds

\* Call c makes its try_send in this step.
Submits(c) == callerPc[c] = "idle" /\ callerPc'[c] # "idle"

\* C6: a submit is turned away if and only if the queue holds queue_size
\* requests at the instant of its try_send; the decision is one step of the
\* caller in which the loop does not move, the step can be taken whatever
\* the loop and the queue are doing, and a caller waits only once its
\* request is in the queue.
C6_NonBlockingAdmission ==
    /\ [][\A c \in Callers :
             Submits(c) =>
                /\ callerPc'[c] \in {"rejected", "awaiting"}
                /\ callerPc'[c] = "rejected" <=> Len(queue) = queue_size
                /\ callerPc'[c] = "rejected" =>
                      (queue' = queue /\ result'[c].kind \in ErrorKinds)
                /\ callerPc'[c] = "awaiting" =>
                      queue' = Append(queue, [payload |-> payload'[c], response_tx |-> c])
                /\ UNCHANGED <<loopVars, histVars>>]_vars
    /\ []((inspect_tx = "live" /\ Idle # {}) => ENABLED (\E p \in Payloads : Inspect(p)))
    /\ [](\A c \in Callers :
             callerPc[c] = "awaiting" =>
                \/ \E i \in 1..Len(queue) : queue[i].response_tx = c
                \/ deqs[c] >= 1)

\* With queue_size = 1: the first request is being served and not yet
\* answered, the second is queued, and the third submit, made after them,
\* has been turned away without waiting for the first to finish.
C6_Witness ==
    /\ queue_size = 1
    /\ callerPc[1] = "awaiting" /\ callerPc[2] = "awaiting"
    /\ callerPc[3] = "rejected"
    /\ pc = "call" /\ Serving = 1 /\ sends[1] = 0
    /\ Len(queue) = queue_size

\* The scenario of C7: queue_size is 2 and the calls with p1 and p2 were
\* both accepted and neither has been answered.
BackToBack ==
    /\ queue_size = 2
    /\ \A a \in {1, 2} : callerPc[a] = "awaiting" /\ sends[a] = 0

\* C7 (as claimed): with queue_size = 2 and p1, p2, p3 submitted
\* back-to-back, none answered, the third submit is turned away in every
\* interleaving with the loop.
C7_ThirdSubmitRejected ==
    [][(BackToBack /\ Submits(3)) => callerPc'[3] = "rejected"]_vars

\* C7 (amended): with queue_size = 2 and p1, p2, p3 submitted back-to-back,
\* none answered, the third submit is turned away, and not enqueued, exactly
\* when the loop has received neither p1 nor p2 before it; p1 and p2 then
\* remain in the queue. When the loop has already received p1, the third
\* submit is accepted.
C7_ThirdSubmitRejectedIfNoneReceived ==
    [][(BackToBack /\ Submits(3)) =>
          /\ callerPc'[3] = "rejected" <=> (deqs[1] = 0 /\ deqs[2] = 0)
          /\ callerPc'[3] = "rejected" =>
                /\ queue' = queue
                /\ queue = <<[payload |-> PayloadOf(1), response_tx |-> 1],
                             [payload |-> PayloadOf(2), response_tx |-> 2]>>
                /\ \A a \in {1, 2} : callerPc'[a] = "awaiting"
          /\ callerPc'[3] = "awaiting" => deqs[1] = 1]_vars

\* The third submit was turned away while p1 and p2 were both still queued.
C7_Witness ==
    /\ queue_size = 2
    /\ callerPc[3] = "rejected"
    /\ \A a \in {1, 2} : callerPc[a] = "awaiting" /\ deqs[a] = 0
    /\ Len(queue) = 2

\* Position of call c's request in the queue, 0 when it is not there.
QueuePos(c) ==
    IF \E i \in 1..Len(queue) : queue[i].response_tx = c
    THEN CHOOSE i \in 1..Len(queue) : queue[i].response_tx = c
    ELSE 0

\* C8: requests are served in the order of their enqueueing (calls are
\* numbered in that order): of two accepted requests A before B, B is never
\* received before A, no connection is opened for B before A's slot was
\* written (or the write discarded), A's response is written before B's,
\* and in the queue A stands ahead of B.
C8_FifoOrder ==
    \A a, b \in Accepted :
        a < b =>
            /\ deqs[b] >= 1 => deqs[a] >= 1
            /\ connects[b] >= 1 => sends[a] >= 1
            /\ sends[b] >= 1 => sends[a] >= 1
            /\ QueuePos(b) > 0 => QueuePos(a) < QueuePos(b)
            /\ QueuePos(a) > 0 => QueuePos(b) > 0

\* A was answered, B (enqueued after A) is in its call, and a third request
\* waits behind them.
C8_Witness ==
    \E a, b, c \in Accepted :
        /\ a < b /\ b < c
        /\ sends[a] = 1
        /\ Serving = b /\ pc = "call"
        /\ QueuePos(c) = 1

\* The loop has not ended, or it ended because the queue was closed and
\* drained.
LoopAlive == pc = "done" => (inspect_tx = "dropped" /\ queue = <<>>)

\* C9: when connecting for a request fails, its slot is written with
\* FailedToConnect carrying the failure's text, no inspect call and no
\* second connection attempt is made for it, the loop goes on, and the next
\* request gets a connection attempt of its own that can succeed or fail
\* whatever happened before.
C9_ConnectFailureIsolated ==
    /\ \A c \in Callers :
          outcome[c].step = "connect" =>
             /\ written[c].kind = "FailedToConnect"
             /\ written[c].message = outcome[c].connect_error.text
             /\ sends[c] = 1 /\ connects[c] = 1 /\ calls[c] = 0
             /\ Serving # c
             /\ slot[c].state = "full" => slot[c].value = written[c]
             /\ callerPc[c] = "returned" => result[c] = written[c]
    /\ LoopAlive
    /\ (pc = "recv" /\ queue # <<>>) => ENABLED Recv
    /\ pc = "connect" =>
          /\ client = "none"
          /\ connects[Serving] = 0
          /\ ENABLED ConnectOk
          /\ \A e \in ConnectErrors : ENABLED ConnectFail(e)

\* Connecting failed for A and A's caller got FailedToConnect; B, queued
\* behind A, was then served with a connection that succeeded.
C9_Witness ==
    \E a, b \in Callers :
        /\ a < b
        /\ outcome[a].step = "connect"
        /\ callerPc[a] = "returned" /\ result[a].kind = "FailedToConnect"
        /\ outcome[b].step = "call" /\ outcome[b].ok
        /\ callerPc[b] = "returned" /\ result[b].kind = "Ok"

\* C10: when the connection succeeded and inspect_state failed, the
\* request's slot is written with InspectFailed carrying the status message,
\* never with Ok or FailedToConnect, after one connection and one call, and
\* the loop goes on with the next request.
C10_CallFailureMapped ==
    \A c \in Callers :
        (outcome[c].step = "call" /\ ~outcome[c].ok) =>
            /\ written[c].kind = "InspectFailed"
            /\ written[c].kind \notin {"Ok", "FailedToConnect"}
            /\ written[c].message = outcome[c].status.message
            /\ written[c].value = NoResponse
            /\ sends[c] = 1 /\ connects[c] = 1 /\ calls[c] = 1
            /\ Serving # c
            /\ pc = "done" => queue = <<>>
            /\ (pc = "recv" /\ queue # <<>>) => ENABLED Recv
            /\ slot[c].state = "full" => slot[c].value = written[c]
            /\ callerPc[c] = "returned" => result[c] = written[c]

\* A transport failure and a remote-reported error each reached its caller
\* as InspectFailed with the status message, and the loop served the later
\* of the two after the earlier.
C10_Witness ==
    \E a, b \in Callers :
        /\ a < b
        /\ outcome[a].step = "call" /\ outcome[b].step = "call"
        /\ outcome[a].status.code = "Unavailable"
        /\ outcome[b].status.code = "InvalidArgument"
        /\ callerPc[a] = "returned" /\ callerPc[b] = "returned"
        /\ result[a] = InspectFailed("connection reset")
        /\ result[b] = InspectFailed("unknown session")

\* The remote call made for call c succeeded.
CallOkFor(c) == outcome[c].step = "call" /\ outcome[c].ok

\* C11: when the remote call for a request with payload P succeeded, the
\* response handed to the request's slot is Ok of the reply the remote side
\* produced for P, with the same completion status, the same reports and no
\* other field (the transport metadata is left behind), and the caller's
\* await returns that same value.
C11_TransparentSuccess ==
    \A c \in Callers :
        CallOkFor(c) =>
            /\ outcome[c].reply \in Responses(payload[c])
            /\ written[c].kind = "Ok"
            /\ written[c].value = outcome[c].reply
            /\ DOMAIN written[c].value = {"completion_status", "reports"}
            /\ written[c].value.completion_status = outcome[c].reply.completion_status
            /\ written[c].value.reports = outcome[c].reply.reports
            /\ written[c].message = ""
            /\ slot[c].state = "full" => slot[c].value = written[c]
            /\ callerPc[c] = "returned" => result[c] = Ok(outcome[c].reply)

\* A caller has received Ok with the report the remote side made from its
\* payload.
C11_Witness ==
    \E c \in Callers :
        /\ CallOkFor(c)
        /\ callerPc[c] = "returned"
        /\ result[c].kind = "Ok"
        /\ result[c].value.reports = <<PayloadOf(c)>>

\* The caller of call c dropped its future.
Abandoned(c) == callerPc[c] = "dropped"

\* The loop calls respond() for call c in this step.
Responds(c) == sends'[c] = sends[c] + 1

\* The loop receives the request of call c in this step.
Receives(c) == deqs'[c] = deqs[c] + 1

\* C12: when a caller dropped its future after its request was enqueued,
\* the loop's write to that request's slot is discarded (no slot changes and
\* the abandoned slot never holds a value), the loop goes on to wait for the
\* next request instead of ending, receiving the abandoned request frees
\* its place in the queue like any other, and the requests behind it are
\* received, connected for and answered with their own responses.
C12_AbandonmentTolerated ==
    /\ [](\A c \in Callers :
             Abandoned(c) =>
                /\ slot[c].state = "closed"
                /\ slot[c].value = NoResult
                /\ result[c] = NoResult)
    /\ [][\A c \in Callers :
             (Abandoned(c) /\ Responds(c)) =>
                /\ slot' = slot
                /\ pc' = "recv"
                /\ UNCHANGED <<queue, inspect_tx, callerVars>>]_vars
    /\ [][\A c \in Callers :
             Receives(c) =>
                /\ Len(queue') = Len(queue) - 1
                /\ queue' = Tail(queue)
                /\ Serving' = c]_vars
    /\ []((\E c \in Callers : Abandoned(c)) =>
             /\ LoopAlive
             /\ (pc = "recv" /\ queue # <<>>) => ENABLED Recv
             /\ pc = "connect" => ENABLED ConnectOk
             /\ \A b \in Callers :
                   /\ slot[b].state = "full" => slot[b].value = ResponseFor(outcome[b])
                   /\ callerPc[b] = "returned" => result[b] = ResponseFor(outcome[b]))

\* A's caller dropped its future while A was queued, the loop served A and
\* its write was discarded, and B, queued behind A, was then served and its
\* caller got Ok.
C12_Witness ==
    \E a, b \in Callers :
        /\ a < b
        /\ Abandoned(a) /\ sends[a] = 1 /\ slot[a].state = "closed"
        /\ deqs[b] = 1 /\ callerPc[b] = "returned" /\ result[b].kind = "Ok"

\* C13: the loop ends only by finding the queue closed (every sender
\* dropped, which is permanent) and empty while it waits on it; a step that
\* responds, whether with a connection failure, a call failure, a success
\* or a write that is discarded, leaves the loop waiting for the next
\* request; and while a sender exists the loop is waiting for a request or
\* serving one.
C13_LoopEndsOnlyOnClose ==
    /\ [](pc = "done" => (inspect_tx = "dropped" /\ queue = <<>> /\ Serving = 0))
    /\ [][(pc # "done" /\ pc' = "done") =>
             /\ pc = "recv"
             /\ inspect_tx = "dropped"
             /\ queue = <<>>
             /\ UNCHANGED histVars]_vars
    /\ [][(\E c \in Callers : Responds(c)) => pc' = "recv"]_vars
    /\ [][inspect_tx = "dropped" => inspect_tx' = "dropped"]_vars
    /\ [][pc = "done" => pc' = "done"]_vars
    /\ [](inspect_tx = "live" =>
             \/ pc = "recv" /\ Serving = 0
             \/ pc \in {"connect", "call"} /\ Serving \in Callers)

\* The loop went through a connection failure, a call failure and a write
\* to an abandoned slot, and ended only after the last sender was dropped.
C13_Witness ==
    /\ pc = "done"
    /\ \E a, b, c \in Callers :
          /\ outcome[a].step = "connect"
          /\ outcome[b].step = "call" /\ ~outcome[b].ok
          /\ Abandoned(c) /\ sends[c] = 1

\* The sender of call c's slot was dropped without having been used while
\* the caller still waits on the slot.
Orphaned(c) == callerPc[c] = "awaiting" /\ slot[c].state = "orphaned"

\* C14: under FairAbortSpec, where the handle_inspect task may be dropped
\* with requests it has not answered, no caller stays blocked for ever. A
\* caller of such a request finds its slot closed (never a slot that stays
\* empty with nobody left to write it), its wait can end at once, and it
\* ends in a failure, the panic of the expect, without a value.
C14_NoSilentHang ==
    /\ \A c \in Callers : []<>(callerPc[c] # "awaiting")
    /\ [](\A c \in Callers :
             /\ Orphaned(c) => ENABLED AwaitFails(c)
             /\ (pc = "aborted" /\ callerPc[c] = "awaiting") =>
                    slot[c].state \in {"full", "orphaned"}
             /\ callerPc[c] = "panicked" =>
                    (result[c] = NoResult /\ sends[c] = 0 /\ pc = "aborted"))
    /\ [][\A c \in Callers :
             (Orphaned(c) /\ callerPc'[c] # "awaiting") =>
                /\ callerPc'[c] \in {"panicked", "dropped"}
                /\ result'[c] = NoResult]_vars

\* The task was dropped while it served one request and held another in
\* the queue, and the waits of both callers ended in the panic.
C14_Witness ==
    \E a, b \in Callers :
        /\ a # b
        /\ callerPc[a] = "panicked" /\ deqs[a] = 1 /\ connects[a] = 1
        /\ callerPc[b] = "panicked" /\ deqs[b] = 0

\* The requests the loop has received and not yet responded to.
InFlight == {c \in Callers : deqs[c] >= 1 /\ sends[c] = 0}

\* The requests a connection is being opened for, and those whose
\* connection is open (it lives from the successful connect to the respond).
OpeningFor == {c \in Callers : deqs[c] >= 1 /\ connects[c] = 0}
OpenFor == {c \in Callers : calls[c] >= 1 /\ sends[c] = 0}

\* C15: at most one request is in flight in the loop, the one it is
\* serving; at most one connection is being opened or open, and it belongs
\* to that request; a connection carries at most one inspect call; and
\* while the loop waits on the queue nothing is in flight and no connection
\* exists, however many requests wait in the queue.
C15_Serialization ==
    /\ Cardinality(InFlight) <= 1
    /\ InFlight = (IF Serving = 0 THEN {} ELSE {Serving})
    /\ Cardinality(OpeningFor \cup OpenFor) <= 1
    /\ OpeningFor \cup OpenFor \subseteq InFlight
    /\ OpeningFor = (IF pc = "connect" THEN {Serving} ELSE {})
    /\ OpenFor = (IF pc = "call" THEN {Serving} ELSE {})
    /\ client = "connected" <=> pc = "call"
    /\ \A c \in Callers : connects[c] <= 1 /\ calls[c] <= connects[c]
    /\ pc = "recv" =>
          /\ InFlight = {}
          /\ client = "none"
          /\ grpc_request = NoGrpcRequest
          /\ request = NoRequest

\* One request is in its call on the only connection while two more wait in
\* the queue.
C15_Witness ==
    /\ pc = "call" /\ client = "connected"
    /\ Cardinality(InFlight) = 1
    /\ Len(queue) = 2
    /\ \E c \in Callers : sends[c] = 0 /\ QueuePos(c) = 2

\* Where the request of call c stands: not accepted, queued, connecting,
\* calling or responded.
Stage(c) ==
    IF sends[c] >= 1 THEN "Responded"
    ELSE IF Serving = c /\ pc = "call" THEN "Calling"
    ELSE IF Serving = c /\ pc = "connect" THEN "Connecting"
    ELSE IF QueuePos(c) > 0 THEN "Queued"
    ELSE "NotAccepted"

\* The moves a request may make.
StageMoves ==
    { <<"NotAccepted", "Queued">>, <<"Queued", "Connecting">>, <<"Connecting", "Calling">>,
      <<"Connecting", "Responded">>, <<"Calling", "Responded">> }

\* C16: a request changes its stage only by one of the moves Queued to
\* Connecting, Connecting to Calling, Connecting to Responded (with the
\* connection-failure error and no call) and Calling to Responded, so it
\* never goes back; an accepted request is always in one of the four stages;
\* it is connected for at most once and called at most once, called only
\* after its connection succeeded; and once responded, its one response
\* (Ok, connection failure or call failure) never changes. Under FairSpec
\* every accepted request reaches Responded.
C16_RequestStateMachine ==
    /\ \A c \in Callers : []<>(Stage(c) \in {"NotAccepted", "Responded"})
    /\ [][\A c \in Callers :
             LET from == Stage(c)
                 to == Stage(c)'
             IN /\ from # to => <<from, to>> \in StageMoves
                /\ (from = "Connecting" /\ to = "Responded") =>
                      (written'[c].kind = "FailedToConnect" /\ calls'[c] = 0)
                /\ (from = "Calling" /\ to = "Responded") =>
                      written'[c].kind \in {"Ok", "InspectFailed"}
                /\ from = "Responded" =>
                      /\ written'[c] = written[c]
                      /\ outcome'[c] = outcome[c]
                      /\ UNCHANGED <<deqs[c], connects[c], calls[c], sends[c]>>]_vars
    /\ [](\A c \in Callers :
             /\ c \in Accepted <=> Stage(c) # "NotAccepted"
             /\ deqs[c] <= 1 /\ connects[c] <= 1 /\ calls[c] <= 1 /\ sends[c] <= 1
             /\ connects[c] <= deqs[c]
             /\ calls[c] = 1 => (connects[c] = 1 /\ outcome[c].step # "connect")
             /\ Stage(c) = "Queued" => (deqs[c] = 0 /\ connects[c] = 0)
             /\ Stage(c) = "Connecting" => (connects[c] = 0 /\ calls[c] = 0)
             /\ Stage(c) = "Calling" => (connects[c] = 1 /\ calls[c] = 1)
             /\ Stage(c) = "Responded" =>
                   /\ connects[c] = 1
                   /\ written[c].kind \in {"Ok"} \cup ErrorKinds
                   /\ written[c].kind = "FailedToConnect" <=> calls[c] = 0)

\* Three requests ended in the three terminal states: one went from
\* Connecting straight to the connection-failure error, one failed in its
\* call, one succeeded.
C16_Witness ==
    \E a, b, c \in Callers :
        /\ Stage(a) = "Responded" /\ written[a].kind = "FailedToConnect" /\ calls[a] = 0
        /\ Stage(b) = "Responded" /\ written[b].kind = "InspectFailed" /\ calls[b] = 1
        /\ Stage(c) = "Responded" /\ written[c].kind = "Ok" /\ calls[c] = 1

\* The caller of call c drops its future in this step.
Abandons(c) == callerPc[c] = "awaiting" /\ callerPc'[c] = "dropped"

\* C17: dropping a future takes nothing out of the queue and does not touch
\* the loop, so an abandoned request stays in the pipeline; the loop
\* receives a request whose caller is already gone like any other, makes
\* its one connection attempt, and when the connection succeeds calls the
\* remote service with the request's payload; under FairSpec every
\* abandoned request is served to its (discarded) response.
C17_NoCancellation ==
    /\ \A c \in Callers : []<>(Abandoned(c) => sends[c] = 1)
    /\ [][\A c \in Callers :
             Abandons(c) => (queue' = queue /\ UNCHANGED <<loopVars, histVars>>)]_vars
    /\ [](\A c \in Callers :
             /\ Abandoned(c) => Stage(c) # "NotAccepted"
             /\ (Abandoned(c) /\ sends[c] = 1) =>
                   /\ deqs[c] = 1 /\ connects[c] = 1
                   /\ outcome[c].step = "call" <=> calls[c] = 1)
    /\ [](stale => (Serving \in Callers /\ Abandoned(Serving)))
    /\ []((pc = "recv" /\ queue # <<>>) => ENABLED Recv)
    /\ [](pc = "connect" =>
             (ENABLED ConnectOk /\ \A e \in ConnectErrors : ENABLED ConnectFail(e)))
    /\ [][(stale /\ pc = "connect" /\ pc' = "call") =>
             /\ connects'[Serving] = 1 /\ calls'[Serving] = 1
             /\ grpc_request'.query_payload = payload[Serving]]_vars

\* A request whose caller had dropped the future before the loop received
\* it is in its remote call, and another abandoned request waits in the
\* queue.
C17_Witness ==
    /\ stale /\ pc = "call"
    /\ connects[Serving] = 1 /\ calls[Serving] = 1
    /\ grpc_request.query_payload = payload[Serving]
    /\ \E b \in Callers : Abandoned(b) /\ QueuePos(b) > 0

\* The submit of call c is turned away in this step.
RejectedNow(c) == Submits(c) /\ callerPc'[c] = "rejected"

\* C18: the step in which a submit is turned away for a full queue changes
\* neither the queue (contents and order), nor the loop and the request it
\* serves, nor the slot, state or result of any other call; the rejected
\* request is never in the queue, never received, connected for or called,
\* its slot is never written, and the call stays rejected: it is not
\* submitted again.
C18_RejectedSubmitHasNoEffect ==
    /\ [][\A c \in Callers :
             RejectedNow(c) =>
                /\ Len(queue) = queue_size
                /\ queue' = queue
                /\ UNCHANGED <<inspect_tx, loopVars, histVars>>
                /\ \A d \in Callers \ {c} :
                      /\ slot'[d] = slot[d]
                      /\ callerPc'[d] = callerPc[d]
                      /\ result'[d] = result[d]
                      /\ payload'[d] = payload[d]]_vars
    /\ [](\A c \in Callers :
             callerPc[c] = "rejected" =>
                /\ QueuePos(c) = 0 /\ Serving # c
                /\ deqs[c] = 0 /\ connects[c] = 0 /\ calls[c] = 0 /\ sends[c] = 0
                /\ written[c] = NoResult /\ outcome[c] = NoOutcome
                /\ slot[c] = [state |-> "closed", value |-> NoResult]
                /\ result[c].kind \in ErrorKinds)
    /\ [][\A c \in Callers :
             callerPc[c] = "rejected" =>
                /\ callerPc'[c] = "rejected"
                /\ result'[c] = result[c]
                /\ slot'[c] = slot[c]]_vars

\* A submit was turned away; the loop has since answered every other call,
\* ended, and never touched the rejected one.
C18_Witness ==
    \E c \in Callers :
        /\ callerPc[c] = "rejected"
        /\ pc = "done"
        /\ \A d \in Callers \ {c} : sends[d] = 1
        /\ sends[c] = 0 /\ connects[c] = 0

\* C19: in Spec (submits, future drops, the drop of the last client,
\* connection failures and call failures in any order) the expect on the
\* await cannot fail: the sender of a slot whose caller waits has either
\* written it or is still held by the loop, in the queue or in service; no
\* accepted request at all is dropped unanswered; and when the last sender
\* is dropped with requests still queued, the loop cannot end before it has
\* received and answered each of them.
C19_ExpectNeverFails ==
    /\ \A c \in Callers :
          /\ callerPc[c] = "awaiting" =>
                /\ slot[c].state \in {"empty", "full"}
                /\ slot[c].state = "empty" => (c \in Held /\ sends[c] = 0)
                /\ slot[c].state = "full" => sends[c] = 1
          /\ callerPc[c] # "panicked"
          /\ slot[c].state # "orphaned"
          /\ ~ ENABLED AwaitFails(c)
          /\ (c \in Accepted /\ sends[c] = 0) => c \in Held
    /\ pc = "done" => (queue = <<>> /\ \A c \in Accepted : sends[c] = 1)
    /\ (inspect_tx = "dropped" /\ queue # <<>>) =>
          /\ pc # "done"
          /\ ~ ENABLED Terminate
          /\ pc = "recv" => ENABLED Recv
    /\ drained => inspect_tx = "dropped"

\* The last client was dropped while requests were queued; the loop
\* received and answered them and only then ended.
C19_Witness ==
    /\ drained
    /\ pc = "done"
    /\ Accepted # {}
    /\ \A c \in Accepted : deqs[c] = 1 /\ sends[c] = 1

\* The accepted requests whose slot the loop has not yet written.
Outstanding == {c \in Accepted : sends[c] = 0}

\* C20: the accepted requests not yet responded to are those in the queue
\* and the one in flight, at most queue_size + 1 of them; receiving a
\* request frees its place in the queue in that same step, before its
\* response is written, so a submit is accepted whenever the queue holds
\* fewer than queue_size requests, whether or not a request is in flight.
C20_OutstandingBound ==
    /\ [](Cardinality(Outstanding) <= queue_size + 1)
    /\ [](Cardinality(Outstanding) = Len(queue) + Cardinality(InFlight))
    /\ [](Outstanding = Held)
    /\ [][\A c \in Callers :
             Receives(c) =>
                /\ Len(queue') = Len(queue) - 1
                /\ sends'[c] = 0
                /\ c \in Outstanding']_vars
    /\ [][\A c \in Callers :
             (Submits(c) /\ Len(queue) < queue_size) => callerPc'[c] = "awaiting"]_vars

\* The bound is met: queue_size requests are queued while one more is in
\* flight, none of them answered.
C20_Witness ==
    /\ Cardinality(Outstanding) = queue_size + 1
    /\ Len(queue) = queue_size
    /\ Cardinality(InFlight) = 1
    /\ queue_size = MaxQueueSize

====
